---- MODULE Spec2Model ----
(***************************************************************************)
(* BatchOperator (airflow/providers/amazon/aws/operators/batch.py): the    *)
(* lifecycle of one AWS Batch job: execute = submit_job, then, when        *)
(* wait_for_completion, monitor_job; on_kill terminates the job from       *)
(* another execution context.  The remote service (boto3 client) and the   *)
(* caller-supplied waiters answer nondeterministically.  BatchClientHook   *)
(* (hooks/batch_client.py) is not part of the sources at hand: its         *)
(* wait_for_job, get_job_awslogs_info and check_job_success follow the     *)
(* design document (StatusPoller, final classification check).             *)
(***************************************************************************)
EXTENDS Naturals, Sequences, FiniteSets

VARIABLES
    job_id,               \* self.job_id
    waiters,              \* self.waiters: TRUE when a waiter object was supplied
    wait_for_completion,  \* self.wait_for_completion
    jobSpec,              \* job_name, job_definition, job_queue, overrides, ...
    ctorJobId,            \* the job_id argument the constructor was called with
    max_retries,          \* self.hook's poll budget (RetryBudget.maxAttempts)
    status_retries,       \* self.hook's per-call retries (RetryBudget.perCallRetries)
    ctorRetries,          \* the max_retries, status_retries arguments of the constructor
    remote,               \* how the remote service answers in this run: "free", "script"
    pc,                   \* position of the host's calling thread
    op,                   \* entry point in progress: "none", "execute", "monitor"
    inv,                  \* number of entry-point invocations so far
    entryJobId,           \* job_id when the invocation in progress began
    calls,                \* remote calls of the invocation in progress, in order
    submitResp,           \* answer to this invocation's submit call
    submitted,            \* TRUE once a submit call of this operator succeeded
    descResp,             \* answer to monitor_job's advisory describe
    waitOutcome,          \* "none", "complete" or "raised"
    attempts,             \* poll cycles used by the built-in poller
    callErrs,             \* consecutive transient errors of the describe in progress
    lastPoll,             \* answer to the poller's latest describe: "status", "transient"
    status,               \* the remote service's status of the job
    awslogs,              \* "none", "present" or "absent"
    checkSeen,            \* status the final success check observed, or "none"
    result,               \* how the invocation ended: "none", "ok" or an error
    returned,             \* value execute returned
    links,                \* links handed to the link-persistence collaborator
    lastKill              \* the latest on_kill of the invocation in progress

vars == <<job_id, waiters, wait_for_completion, jobSpec, ctorJobId, max_retries,
          status_retries, ctorRetries, remote, pc, op, inv,
          entryJobId, calls, submitResp, submitted, descResp, waitOutcome, attempts,
          callErrs, lastPoll, status, awslogs, checkSeen, result, returned, links,
          lastKill>>

config == <<waiters, wait_for_completion, jobSpec, ctorJobId, max_retries,
            status_retries, ctorRetries, remote>>
monitorVars == <<descResp, waitOutcome, attempts, callErrs, lastPoll, awslogs,
                 checkSeen>>

----------------------------------------------------------------------------
\* Bounds of the model.
MaxInvocations == 2
\* RetryBudget (max_retries, status_retries), scaled down.
MaxAttempts == 2
PerCallRetries == 2

----------------------------------------------------------------------------
\* Job handles.  None is Python's None; a handle is either the one given to
\* the constructor or the n-th identifier the remote service handed out.
None == [src |-> "none", n |-> 0]
CtorHandle == [src |-> "ctor", n |-> 0]
RemoteHandle(n) == [src |-> "remote", n |-> n]

JobStatus == {"SUBMITTED", "PENDING", "RUNNABLE", "STARTING", "RUNNING",
              "SUCCEEDED", "FAILED"}
Terminal == {"SUCCEEDED", "FAILED"}

Rank(s) ==
    CASE s = "SUBMITTED" -> 1
      [] s = "PENDING"   -> 2
      [] s = "RUNNABLE"  -> 3
      [] s = "STARTING"  -> 4
      [] s = "RUNNING"   -> 5
      [] OTHER           -> 6

\* What the remote service may report next for a job last seen in status s.
NextStatuses(s) ==
    IF s \in Terminal THEN {s} ELSE {t \in JobStatus : Rank(t) >= Rank(s)}

\* Python truthiness of a dict argument: `x or {}`.
OrEmpty(d) == IF d = "None" THEN "{}" ELSE d

\* The status sequence of a job that runs to success.
StatusScript == <<"SUBMITTED", "PENDING", "RUNNABLE", "RUNNING", "SUCCEEDED">>

\* The constructor's arguments the model distinguishes, with the poll budget
\* drawn from budgets.
CtorArgsWith(budgets) ==
    [job_id : {None, CtorHandle},
     waiters : BOOLEAN,
     wait_for_completion : BOOLEAN,
     overrides : {"None"},
     max_retries : budgets,
     status_retries : {PerCallRetries}]

CtorArgs == CtorArgsWith({MaxAttempts})

\* Arguments whose poll budget lets the poller see all of StatusScript.
ScriptedArgs == CtorArgsWith({Len(StatusScript)})

\* Variants: the hook is built with a budget other than the argument.
init_max_retries_OneMore(arg) == arg + 1
init_status_retries_OneMore(arg) == arg + 1

\* __init__: the fields it stores and the budgets it builds the hook with.
init_max_retries(arg) == arg
init_status_retries(arg) == arg
init_job_id(arg) == arg
init_jobSpec(a) ==
    [job_name |-> "name", job_definition |-> "def", job_queue |-> "queue",
     overrides |-> OrEmpty(a.overrides), array_properties |-> OrEmpty("None"),
     parameters |-> OrEmpty("None"), tags |-> OrEmpty("None")]

Call(o, j) == [op |-> o, jobId |-> j]

\* Answers to the submit call: none yet, an error, or a response with its jobId.
NoResponse == [kind |-> "none", jobId |-> None]
SubmitError == [kind |-> "error", jobId |-> None]
SubmitOk(j) == [kind |-> "ok", jobId |-> j]

\* No on_kill yet.
NoKill == [at |-> "none", jobId |-> None, sent |-> 0, resp |-> "none",
           outcome |-> "none"]

\* The state after __init__(a), the remote service in mode r.
InitWith(a, r) ==
        /\ job_id = init_job_id(a.job_id)
        /\ ctorJobId = a.job_id
        /\ max_retries = init_max_retries(a.max_retries)
        /\ status_retries = init_status_retries(a.status_retries)
        /\ ctorRetries = [max_retries |-> a.max_retries,
                          status_retries |-> a.status_retries]
        /\ remote = r
        /\ waiters = a.waiters
        /\ wait_for_completion = a.wait_for_completion
        /\ jobSpec = init_jobSpec(a)
        /\ pc = "idle"
        /\ op = "none"
        /\ inv = 0
        /\ entryJobId = None
        /\ calls = << >>
        /\ submitResp = NoResponse
        /\ submitted = FALSE
        /\ descResp = "none"
        /\ waitOutcome = "none"
        /\ attempts = 0
        /\ callErrs = 0
        /\ lastPoll = "none"
        /\ status = "SUBMITTED"
        /\ awslogs = "none"
        /\ checkSeen = "none"
        /\ result = "none"
        /\ returned = None
        /\ links = {}
        /\ lastKill = NoKill

Init == \E a \in CtorArgs : InitWith(a, "free")

\* The operator built with a budget of Len(StatusScript) polls, the remote
\* service answering every call and reporting StatusScript to the poller.
InitScripted == \E a \in ScriptedArgs : InitWith(a, "script")

\* The calling thread is between invocations.
AtRest == pc \in {"idle", "done"}

\* An invocation begins: everything recorded per invocation starts afresh.
Begin(o, p) ==
    /\ inv' = inv + 1
    /\ op' = o
    /\ pc' = p
    /\ entryJobId' = job_id
    /\ calls' = << >>
    /\ submitResp' = NoResponse
    /\ descResp' = "none"
    /\ waitOutcome' = "none"
    /\ attempts' = 0
    /\ callErrs' = 0
    /\ lastPoll' = "none"
    /\ awslogs' = "none"
    /\ checkSeen' = "none"
    /\ result' = "none"
    /\ returned' = None
    /\ links' = {}
    /\ lastKill' = NoKill
    /\ UNCHANGED <<job_id, status, submitted, config>>

\* An invocation ends with result r.
Finish(r) ==
    /\ pc' = "done"
    /\ result' = r

----------------------------------------------------------------------------
\* execute(context): the host calls the entry point; submit_job comes first.
execute ==
    /\ AtRest
    /\ inv < MaxInvocations
    /\ Begin("execute", "submit")

\* The host calls monitor_job on its own.
monitor_job_call ==
    /\ AtRest
    /\ inv < MaxInvocations
    /\ Begin("monitor", "monitor")

\* Variant: execute ends without its return statement.
ExecuteReturn_Nothing(jid) == None

\* execute: `return self.job_id`.
ExecuteReturn(jid) == jid

\* Variant: execute monitors whatever wait_for_completion says.
ExecuteNextPc_AlwaysMonitor(wfc) == "monitor"

\* execute, after submit_job returned: monitor_job only when wait_for_completion.
ExecuteNextPc(wfc) == IF wfc THEN "monitor" ELSE "done"

\* Variant: a handle already stored is kept instead of the response's.
StoreJobId_KeepOld(old, new) == IF old # None THEN old ELSE new

\* submit_job: the stored handle after a successful response.
StoreJobId(old, new) == new

\* Variants: the failed submit is tried again; the failure is swallowed and
\* execute goes on to monitor_job.
AfterSubmitFailure_Retry == "submit"
AfterSubmitFailure_Swallow == "monitor"

\* submit_job: where the thread goes when the remote call raised.
AfterSubmitFailure == "done"

\* Variant: the except branch clears the stored handle.
JobIdAfterFailure_Reset(old) == None

\* submit_job: the stored handle when the remote call raised.
JobIdAfterFailure(old) == old

\* The answers the remote service may give, by its mode.
SubmitAnswers(n) ==
    IF remote = "script" THEN {SubmitOk(RemoteHandle(n))}
    ELSE {SubmitOk(RemoteHandle(n)), SubmitError}
DescribeAnswers ==
    IF remote = "script" THEN {"full", "noDefinition", "noQueue"}
    ELSE {"full", "noDefinition", "noQueue", "error"}
PollAnswers == IF remote = "script" THEN {"status"} ELSE {"status", "transient"}
PollStatuses(s, n) ==
    IF remote = "script"
    THEN {StatusScript[IF n + 1 < Len(StatusScript) THEN n + 1 ELSE Len(StatusScript)]}
    ELSE NextStatuses(s)

\* submit_job: the remote submit call is issued with the JobSpec's fields.
submit_job_call ==
    /\ pc = "submit"
    /\ calls' = Append(calls, Call("submit", None))
    /\ pc' = "submit_wait"
    /\ UNCHANGED <<job_id, op, inv, entryJobId, submitResp, submitted, status,
                   result, returned, links, lastKill, config, monitorVars>>

\* submit_job: the remote call answers; on an error AirflowException is raised
\* out of execute, otherwise the handle is stored and the details link persisted.
submit_job_return ==
    /\ pc = "submit_wait"
    /\ \E r \in SubmitAnswers(inv) :
        /\ submitResp' = r
        /\ IF r.kind = "error"
           THEN /\ pc' = AfterSubmitFailure
                /\ result' = IF AfterSubmitFailure = "done"
                             THEN "SubmissionError" ELSE result
                /\ job_id' = JobIdAfterFailure(job_id)
                /\ UNCHANGED <<status, links, returned, submitted>>
           ELSE /\ job_id' = StoreJobId(job_id, r.jobId)
                /\ submitted' = TRUE
                /\ status' = "SUBMITTED"
                /\ links' = links \cup {"details"}
                /\ pc' = ExecuteNextPc(wait_for_completion)
                /\ result' = IF pc' = "done" THEN "ok" ELSE result
                /\ returned' = IF pc' = "done" THEN ExecuteReturn(job_id')
                               ELSE returned
    /\ UNCHANGED <<op, inv, entryJobId, calls, lastKill, config, monitorVars>>

----------------------------------------------------------------------------
\* Variant: monitor_job without its guard.
MonitorPrecondition_NoGuard(jid) == TRUE

\* monitor_job: `if not self.job_id: raise`.
MonitorPrecondition(jid) == jid # None

\* Variant: the KeyError of a missing field is not caught.
DescribeRaises_KeyErrorEscapes(resp) == resp # "full"

\* monitor_job, advisory step: only a KeyError (a field missing from the
\* description) is caught; any other failure of the describe call propagates.
DescribeRaises(resp) == resp = "error"

\* monitor_job, advisory step: the links persisted in the try's else branch.
DescribeLinks(resp) == IF resp = "full" THEN {"definition", "queue"} ELSE {}

\* Variant: the failure raised by check_job_success is swallowed.
monitor_result_Swallow(checkOk) == "ok"

\* monitor_job: its ending once check_job_success returned (TRUE) or raised.
monitor_result(checkOk) == IF checkOk THEN "ok" ELSE "JobFailedError"

\* monitor_job: the precondition on the handle.
monitor_job ==
    /\ pc = "monitor"
    /\ IF MonitorPrecondition(job_id)
       THEN /\ pc' = "describe"
            /\ UNCHANGED result
       ELSE Finish("PreconditionError")
    /\ UNCHANGED <<job_id, op, inv, entryJobId, calls, submitResp, submitted, status,
                   returned, links, lastKill, config, monitorVars>>

\* monitor_job: hook.get_job_description(job_id) and the two ARN lookups.
get_job_description ==
    /\ pc = "describe"
    /\ calls' = Append(calls, Call("describe", job_id))
    /\ \E r \in DescribeAnswers :
        /\ descResp' = r
        /\ IF DescribeRaises(r)
           THEN /\ Finish("DescribeError")
                /\ UNCHANGED links
           ELSE /\ pc' = "wait"
                /\ links' = links \cup DescribeLinks(r)
                /\ UNCHANGED result
    /\ UNCHANGED <<job_id, op, inv, entryJobId, submitResp, submitted, status, returned,
                   lastKill, config, waitOutcome, attempts, callErrs, lastPoll,
                   awslogs, checkSeen>>

\* Variant: the exception of the wait is swallowed and monitor_job goes on.
AfterWaitRaised_Swallow == "awslogs"

\* monitor_job: where the thread goes when the wait raised (no try around it).
AfterWaitRaised == "done"

\* The wait raised err.
WaitRaised(err) ==
    IF AfterWaitRaised = "done" THEN Finish(err)
    ELSE pc' = AfterWaitRaised /\ UNCHANGED result

\* Variant: the poller's wait is not under the else of `if self.waiters`.
PollerSelected_NoElse(w) == TRUE

\* monitor_job: `if self.waiters: ... else: ...` selects the wait strategy.
WaitersSelected(w) == w
PollerSelected(w) == ~w

\* monitor_job with waiters: waiters.wait_for_job(job_id) blocks until the job
\* is complete, or raises.
waiters_wait_for_job ==
    /\ pc = "wait"
    /\ WaitersSelected(waiters)
    /\ calls' = Append(calls, Call("waiter_wait", job_id))
    /\ \E r \in {"complete", "raised"} :
        /\ waitOutcome' = r
        /\ IF r = "raised"
           THEN /\ WaitRaised("WaitError")
                /\ \E s \in NextStatuses(status) : status' = s
           ELSE /\ pc' = "awslogs"
                /\ \E s \in Terminal \cap NextStatuses(status) : status' = s
                /\ UNCHANGED result
    /\ UNCHANGED <<job_id, op, inv, entryJobId, submitResp, submitted, returned, links,
                   lastKill, config, descResp, attempts, callErrs, lastPoll,
                   awslogs, checkSeen>>

\* StatusPoller: one describe call of the poll loop.  A transient transport
\* error is retried up to PerCallRetries times before the poll attempt counts
\* as exhausted; a status outside the target set uses up one poll attempt;
\* the attempt budget exhausted is a TimeoutError.
PollExhausted(n) == n >= max_retries

hook_wait_for_job ==
    /\ pc = "wait"
    /\ PollerSelected(waiters)
    /\ calls' = Append(calls, Call("poll", job_id))
    /\ \E r \in PollAnswers :
        /\ lastPoll' = r
        /\ IF r = "transient" /\ callErrs < status_retries
           THEN /\ callErrs' = callErrs + 1
                /\ UNCHANGED <<pc, result, status, attempts, waitOutcome>>
           ELSE \E s \in (IF r = "transient" THEN {status}
                          ELSE PollStatuses(status, attempts)) :
             /\ status' = s
             /\ callErrs' = 0
             /\ IF r = "status" /\ s \in Terminal
                THEN /\ pc' = "awslogs"
                     /\ waitOutcome' = "complete"
                     /\ UNCHANGED <<attempts, result>>
                ELSE /\ attempts' = attempts + 1
                     /\ IF PollExhausted(attempts')
                        THEN /\ WaitRaised("TimeoutError")
                             /\ waitOutcome' = "raised"
                        ELSE UNCHANGED <<pc, result, waitOutcome>>
    /\ UNCHANGED <<job_id, op, inv, entryJobId, submitResp, submitted, returned, links,
                   lastKill, config, descResp, awslogs, checkSeen>>

\* Variant: monitor_job returns early when no locator came back.
AfterAwslogs_StopWithoutLocator(r) == IF r = "present" THEN "check" ELSE "done"

\* monitor_job: after the `if awslogs:` block comes check_job_success.
AfterAwslogs(r) == "check"

\* monitor_job: hook.get_job_awslogs_info(job_id); the CloudWatch link is
\* persisted only when a locator came back.
get_job_awslogs_info ==
    /\ pc = "awslogs"
    /\ calls' = Append(calls, Call("awslogs", job_id))
    /\ \E r \in {"present", "absent"} :
        /\ awslogs' = r
        /\ links' = IF r = "present" THEN links \cup {"logs"} ELSE links
        /\ pc' = AfterAwslogs(r)
        /\ result' = IF pc' = "done" THEN "ok" ELSE result
    /\ UNCHANGED <<job_id, op, inv, entryJobId, submitResp, submitted, status,
                   returned, lastKill, config, descResp, waitOutcome, attempts,
                   callErrs, lastPoll, checkSeen>>

\* hook.check_job_success: TRUE only for a job the service reports SUCCEEDED.
CheckJobSuccess(s) == s = "SUCCEEDED"

\* monitor_job: the final classification check; execute then returns job_id.
check_job_success ==
    /\ pc = "check"
    /\ calls' = Append(calls, Call("check", job_id))
    /\ checkSeen' = status
    /\ Finish(monitor_result(CheckJobSuccess(status)))
    /\ returned' = IF op = "execute" /\ result' = "ok"
                   THEN ExecuteReturn(job_id) ELSE returned
    /\ UNCHANGED <<job_id, op, inv, entryJobId, submitResp, submitted, status, links,
                   lastKill, config, descResp, waitOutcome, attempts, callErrs,
                   lastPoll, awslogs>>

----------------------------------------------------------------------------
\* Variant: on_kill raises unless the service reports a fresh termination.
on_kill_outcome_Strict(resp) == IF resp = "ack" THEN "ok" ELSE "raised"

\* Variant: on_kill catches whatever terminate_job raises.
on_kill_outcome_Swallow(resp) == "ok"

\* on_kill: whether the handler raises, given the answer to terminate_job:
\* there is no try around the call, so any exception of the call leaves on_kill.
on_kill_outcome(resp) == IF resp \in {"transient", "error"} THEN "raised" ELSE "ok"

\* Variant: on_kill forgets the handle once the job is terminated.
on_kill_job_id_Forget(jid) == None

\* on_kill: the stored handle afterwards (it only reads self.job_id).
on_kill_job_id(jid) == jid

\* on_kill: the terminate calls it sends for the stored handle.
on_kill_sent(jid) == 1

\* on_kill, from the host's other execution context, whatever the calling
\* thread is doing: client.terminate_job(jobId=self.job_id, ...), then a log
\* line.  The service acknowledges (also for a job already terminal), or the
\* call fails, for a transient reason (timeout, throttling) or for good.
on_kill ==
    /\ \E r \in {"ack", "alreadyTerminal", "transient", "error"} :
        lastKill' = [at |-> pc, jobId |-> job_id, sent |-> on_kill_sent(job_id),
                     resp |-> r, outcome |-> on_kill_outcome(r)]
    /\ job_id' = on_kill_job_id(job_id)
    /\ UNCHANGED <<pc, op, inv, entryJobId, calls, submitResp, submitted, status,
                   result, returned, links, config, monitorVars>>

----------------------------------------------------------------------------
Next ==
    \/ execute
    \/ monitor_job_call
    \/ submit_job_call
    \/ submit_job_return
    \/ monitor_job
    \/ get_job_description
    \/ waiters_wait_for_job
    \/ hook_wait_for_job
    \/ get_job_awslogs_info
    \/ check_job_success
    \/ on_kill

Spec == Init /\ [][Next]_vars

\* The steps of the calling thread: each is a blocking call that returns.
Thread ==
    \/ submit_job_call
    \/ submit_job_return
    \/ monitor_job
    \/ get_job_description
    \/ waiters_wait_for_job
    \/ hook_wait_for_job
    \/ get_job_awslogs_info
    \/ check_job_success

\* The scripted run: the calling thread keeps running until its entry point
\* returns or raises.
ScriptedSpec == InitScripted /\ [][Next]_vars /\ WF_vars(Thread)

----------------------------------------------------------------------------
\* Properties.

MonitorPcs == {"monitor", "describe", "wait", "awslogs", "check"}
MonitorOps == {"describe", "waiter_wait", "poll", "awslogs", "check"}
WaitOps == {"waiter_wait", "poll"}

CallsOf(ops) == {i \in DOMAIN calls : calls[i].op \in ops}
SubmitCount == Cardinality(CallsOf({"submit"}))

\* C1: monitor_job entered while job_id is unset ends with the precondition
\* error and issues no remote call at all (no describe, wait, log-locator
\* fetch or success check), and no thread is ever past the guard without a
\* handle.
C1_MonitorWithoutHandle ==
    /\ (op = "monitor" /\ entryJobId = None) =>
          /\ calls = << >>
          /\ pc \in {"monitor", "done"}
          /\ pc = "done" => result = "PreconditionError"
    /\ pc \in {"describe", "wait", "awslogs", "check"} => job_id # None

C1_Witness ==
    /\ op = "monitor"
    /\ entryJobId = None
    /\ pc = "done"
    /\ result = "PreconditionError"

\* C2: on_kill invoked while no job handle exists fails with a precondition
\* error and sends no terminate call.
C2_CancelWithoutHandle ==
    (lastKill.at # "none" /\ lastKill.jobId = None) =>
        /\ lastKill.sent = 0
        /\ lastKill.outcome = "PreconditionError"

\* C3: every execute issues exactly one remote submit call, whatever its
\* outcome: never a second one after a submission failure, a timeout or a
\* FAILED job.
C3_ExactlyOneSubmit ==
    op = "execute" =>
        /\ SubmitCount <= 1
        /\ pc # "submit" => SubmitCount = 1

C3_Witness ==
    /\ op = "execute"
    /\ pc = "done"
    /\ result = "JobFailedError"
    /\ SubmitCount = 1

\* C4: when the remote submit call fails, execute ends at once with the
\* submission failure, the stored handle is what it was before the call, and
\* no call of monitor_job follows the submit call.
C4_SubmitFailure ==
    (op = "execute" /\ submitResp.kind = "error") =>
        /\ pc = "done"
        /\ result = "SubmissionError"
        /\ job_id = entryJobId
        /\ calls = <<Call("submit", None)>>
        /\ returned = None

C4_Witness ==
    /\ op = "execute"
    /\ submitResp.kind = "error"
    /\ entryJobId = RemoteHandle(1)
    /\ job_id = RemoteHandle(1)

\* C5: a job that ended FAILED makes monitor_job end with the job-failed error
\* although the wait returned normally, and monitor_job (execute with
\* wait_for_completion) ends normally only if the final success check, the
\* last call and made after the wait, saw SUCCEEDED.
C5_FailedJobFails ==
    pc = "done" =>
        /\ (waitOutcome = "complete" /\ status = "FAILED") =>
               result = "JobFailedError"
        /\ (result = "ok" /\ (op = "monitor" \/ wait_for_completion)) =>
               /\ checkSeen = "SUCCEEDED"
               /\ waitOutcome = "complete"
               /\ calls[Len(calls)].op = "check"
               /\ \E i \in CallsOf(WaitOps) : i < Len(calls)

C5_Witness ==
    /\ pc = "done"
    /\ waitOutcome = "complete"
    /\ status = "FAILED"
    /\ checkSeen = "FAILED"
    /\ result = "JobFailedError"

\* C6: execute with wait_for_completion false issues the submit call and no
\* other, and once the submit call succeeded it has returned the handle of
\* the response, with or without waiters.
C6_NoWaitNoMonitor ==
    (op = "execute" /\ ~wait_for_completion) =>
        /\ CallsOf(MonitorOps) = {}
        /\ pc \notin MonitorPcs
        /\ submitResp.kind = "ok" =>
              /\ pc = "done"
              /\ result = "ok"
              /\ returned = submitResp.jobId

C6_Witness ==
    /\ op = "execute"
    /\ ~wait_for_completion
    /\ waiters
    /\ submitResp.kind = "ok"
    /\ pc = "done"
    /\ returned = RemoteHandle(inv)

\* C7: on_kill can run whatever the calling thread is doing, and an on_kill
\* on a set handle during monitor_job sends exactly one terminate call for
\* that handle and does not raise when the service answers that the job is
\* already terminal (or acknowledges).
C7_CancelDuringMonitor ==
    /\ ENABLED on_kill
    /\ (lastKill.at \in MonitorPcs /\ lastKill.jobId # None) =>
          /\ lastKill.sent = 1
          /\ lastKill.jobId = job_id
          /\ lastKill.resp \in {"ack", "alreadyTerminal"} =>
                lastKill.outcome = "ok"

C7_Witness ==
    /\ lastKill.at = "wait"
    /\ pc = "wait"
    /\ attempts > 0
    /\ lastKill.jobId # None
    /\ lastKill.resp = "alreadyTerminal"
    /\ lastKill.outcome = "ok"

\* C8 as stated: the job handle is unset in every state before the first
\* successful submit, however the operator was constructed.
C8_UnsetBeforeSubmit == ~submitted => job_id = None

\* C8 as amended: before the first successful submit the job handle is the
\* job_id argument of the constructor: unset when the operator was built
\* without one (the default), that handle otherwise.
C8_CtorHandleBeforeSubmit == ~submitted => job_id = ctorJobId

C8_Witness ==
    /\ ~submitted
    /\ ctorJobId = None
    /\ job_id = None
    /\ inv = 2
    /\ submitResp.kind = "error"

\* C9: within one execute, every call monitor_job makes uses the handle this
\* invocation's submit call returned, not the constructor's nor one left by
\* an earlier invocation.
C9_HandleOfThisInvocation ==
    op = "execute" =>
        \A i \in CallsOf(MonitorOps) :
            /\ submitResp.kind = "ok"
            /\ calls[i].jobId = submitResp.jobId
            /\ calls[i].jobId \notin {None, ctorJobId, entryJobId}

C9_Witness ==
    /\ op = "execute"
    /\ entryJobId = RemoteHandle(1)
    /\ pc = "done"
    /\ CallsOf({"check"}) # {}
    /\ job_id = RemoteHandle(2)

\* The ending of monitor_job as the wait and the final check decide it.
OutcomeOfWaitAndCheck ==
    IF waitOutcome = "raised"
    THEN IF waiters THEN "WaitError" ELSE "TimeoutError"
    ELSE IF checkSeen = "SUCCEEDED" THEN "ok" ELSE "JobFailedError"

\* C10: a describe response without the job-definition or job-queue field is
\* not escalated: monitor_job goes on to the wait strategy and, the wait
\* complete, to the final check, and ends as the wait and the check decide,
\* exactly as with a full response.
C10_AdvisoryNotEscalated ==
    descResp \in {"full", "noDefinition", "noQueue"} =>
        /\ pc \in {"wait", "awslogs", "check", "done"}
        /\ pc = "done" =>
              /\ CallsOf(WaitOps) # {}
              /\ waitOutcome = "complete" => CallsOf({"check"}) # {}
              /\ result = OutcomeOfWaitAndCheck

C10_Witness ==
    /\ descResp = "noQueue"
    /\ pc = "done"
    /\ result = "ok"
    /\ "queue" \notin links

\* C11: one wait strategy per monitor_job: with waiters configured only the
\* waiters' wait is called (once), without them only the poller's; never both
\* in one invocation; and the selection made at construction never changes.
C11_OneStrategyCalls ==
    /\ waiters => CallsOf({"poll"}) = {}
    /\ ~waiters => CallsOf({"waiter_wait"}) = {}
    /\ Cardinality(CallsOf({"waiter_wait"})) <= 1
    /\ CallsOf({"poll"}) = {} \/ CallsOf({"waiter_wait"}) = {}

C11_OneStrategy ==
    /\ []C11_OneStrategyCalls
    /\ [][waiters' = waiters]_vars

C11_Witness ==
    /\ waiters
    /\ pc = "done"
    /\ result = "ok"
    /\ Cardinality(CallsOf({"waiter_wait"})) = 1
    /\ CallsOf({"poll"}) = {}

\* C12: with the poller and a budget that covers it, when the remote service
\* answers every call and reports SUBMITTED, PENDING, RUNNABLE, RUNNING,
\* SUCCEEDED to the successive polls, execute with wait_for_completion
\* eventually ends with no error and returns the handle of its submit call.
C12_Started(n) ==
    /\ inv = n
    /\ op = "execute"
    /\ pc = "submit"
    /\ ~waiters
    /\ wait_for_completion

C12_ReturnedHandle(n) ==
    /\ inv = n
    /\ pc = "done"
    /\ result = "ok"
    /\ submitResp.kind = "ok"
    /\ returned = submitResp.jobId
    /\ returned # None
    /\ Cardinality(CallsOf({"poll"})) = Len(StatusScript)

C12_ScriptedRunSucceeds ==
    \A n \in 1..MaxInvocations : C12_Started(n) ~> C12_ReturnedHandle(n)

C12_Witness ==
    /\ remote = "script"
    /\ op = "execute"
    /\ ~waiters
    /\ wait_for_completion
    /\ pc = "done"
    /\ result = "ok"
    /\ attempts = Len(StatusScript) - 1
    /\ checkSeen = "SUCCEEDED"
    /\ returned = RemoteHandle(inv)

\* C13: with the poller, monitor_job cannot stay in the wait for ever: every
\* step of the wait is a describe call, the poll cycles never exceed the
\* max_retries given to the constructor and the describe calls never exceed
\* max_retries * (status_retries + 1), so the wait is left at the latest when
\* the budget is used up; and a wait that ends with the job not terminal ends
\* monitor_job with the timeout error, never with success.
C13_PollBudget ==
    ~waiters =>
        /\ attempts <= ctorRetries.max_retries
        /\ Cardinality(CallsOf({"poll"})) <=
               ctorRetries.max_retries * (ctorRetries.status_retries + 1)
        /\ pc = "wait" =>
              /\ attempts < ctorRetries.max_retries
              /\ ENABLED hook_wait_for_job
        /\ (pc = "done" /\ CallsOf({"poll"}) # {} /\ status \notin Terminal) =>
              /\ result = "TimeoutError"
              /\ attempts = ctorRetries.max_retries
              /\ CallsOf({"awslogs", "check"}) = {}

C13_Witness ==
    /\ ~waiters
    /\ pc = "done"
    /\ result = "TimeoutError"
    /\ status \notin Terminal
    /\ attempts = ctorRetries.max_retries
    /\ lastPoll = "status"

\* C14 as stated: a terminate call of on_kill that fails with a transient
\* transport error is recovered by a retry: on_kill does not fail on it.
C14_TransientTerminateRecovered ==
    lastKill.resp = "transient" => lastKill.outcome = "ok"

\* C14 as amended: on_kill does not retry: a terminate call that fails with a
\* transient transport error is the only terminate call on_kill sends, and
\* its error makes on_kill fail.
C14_TransientTerminateRaises ==
    lastKill.resp = "transient" =>
        /\ lastKill.sent = 1
        /\ lastKill.outcome = "raised"

C14_Witness ==
    /\ lastKill.resp = "transient"
    /\ lastKill.jobId # None
    /\ lastKill.at = "wait"
    /\ lastKill.outcome = "raised"

\* A step of the poller: one more describe call of the poll loop.
PollStep ==
    /\ pc = "wait"
    /\ Len(calls') = Len(calls) + 1
    /\ calls'[Len(calls')].op = "poll"

\* C15: while polling, a transient transport error on a describe call that
\* has failed fewer than status_retries times in a row (status_retries as
\* given to the constructor) uses up no poll attempt and leaves monitor_job
\* waiting, and a valid terminal response after such errors completes the
\* wait with no attempt counted; the error that makes status_retries + 1 in a
\* row uses up one poll attempt.
C15_TransientErrorsAndAttempts ==
    [][PollStep =>
        /\ (lastPoll' = "transient" /\ callErrs < ctorRetries.status_retries) =>
              /\ attempts' = attempts
              /\ callErrs' = callErrs + 1
              /\ pc' = "wait"
              /\ result' = "none"
        /\ (lastPoll' = "transient" /\ callErrs = ctorRetries.status_retries) =>
              /\ attempts' = attempts + 1
              /\ callErrs' = 0
        /\ (lastPoll' = "status" /\ status' \in Terminal) =>
              /\ attempts' = attempts
              /\ pc' = "awslogs"
              /\ result' = "none"]_vars

C15_Witness ==
    /\ pc = "wait"
    /\ lastPoll = "transient"
    /\ callErrs = 0
    /\ attempts = 1
    /\ Cardinality(CallsOf({"poll"})) = ctorRetries.status_retries + 1

\* The links monitor_job and submit_job persist apart from the log link.
LinksBesideLogs ==
    (IF submitResp.kind = "ok" THEN {"details"} ELSE {}) \cup DescribeLinks(descResp)

\* C16: the log locator decides nothing but its own link: whether it is
\* present or absent, monitor_job goes on to the final success check and ends
\* as that check decides, and the persisted links differ in the log link only.
C16_LogLocatorNoInfluence ==
    awslogs \in {"present", "absent"} =>
        /\ pc \in {"check", "done"}
        /\ pc = "done" =>
              /\ CallsOf({"check"}) # {}
              /\ result = IF checkSeen = "SUCCEEDED" THEN "ok" ELSE "JobFailedError"
        /\ "logs" \in links <=> awslogs = "present"
        /\ links \ {"logs"} = LinksBesideLogs

C16_Witness ==
    /\ awslogs = "absent"
    /\ pc = "done"
    /\ result = "ok"
    /\ "logs" \notin links
    /\ CallsOf({"check"}) # {}

\* C17: no step changes the JobSpec fields, the wait-strategy selection or
\* wait_for_completion; the job handle changes only when a submit call
\* succeeds, to the identifier of the response, and then nothing else of the
\* operator changes; on_kill leaves the job handle as it is.
C17_Frame ==
    [][/\ jobSpec' = jobSpec
       /\ waiters' = waiters
       /\ wait_for_completion' = wait_for_completion
       /\ max_retries' = max_retries
       /\ status_retries' = status_retries
       /\ (pc = "submit_wait" /\ submitResp'.kind = "ok") =>
             job_id' = submitResp'.jobId
       /\ job_id' # job_id =>
             /\ pc = "submit_wait"
             /\ submitResp'.kind = "ok"
             /\ lastKill' = lastKill
       /\ (lastKill' # lastKill /\ lastKill'.at # "none") => job_id' = job_id]_vars

C17_Witness ==
    /\ submitResp.kind = "ok"
    /\ entryJobId = CtorHandle
    /\ job_id = submitResp.jobId
    /\ lastKill.at = "wait"
    /\ lastKill.jobId = job_id
    /\ jobSpec.overrides = "{}"

\* The place of a call in monitor_job.
Order(o) ==
    CASE o = "describe"           -> 1
      [] o \in WaitOps            -> 2
      [] o = "awslogs"            -> 3
      [] o = "check"              -> 4
      [] OTHER                    -> 0

\* C18: the calls of monitor_job come in the order advisory describe, wait,
\* log-locator fetch, final success check, each of the three single calls at
\* most once and none without the ones before it; when the wait raises, the
\* error ends monitor_job, no log-locator fetch and no success check is made,
\* and success is not reported.
C18_MonitorOrder ==
    /\ \A i, j \in DOMAIN calls :
          i < j => Order(calls[i].op) <= Order(calls[j].op)
    /\ \A o \in {"describe", "awslogs", "check"} : Cardinality(CallsOf({o})) <= 1
    /\ CallsOf({"check"}) # {} => CallsOf({"awslogs"}) # {}
    /\ CallsOf({"awslogs"}) # {} => CallsOf(WaitOps) # {}
    /\ CallsOf(WaitOps) # {} => CallsOf({"describe"}) # {}
    /\ waitOutcome = "raised" =>
          /\ pc = "done"
          /\ result \in {"TimeoutError", "WaitError"}
          /\ CallsOf({"awslogs", "check"}) = {}

C18_Witness ==
    /\ waitOutcome = "raised"
    /\ waiters
    /\ pc = "done"
    /\ result = "WaitError"
    /\ CallsOf({"describe"}) # {}
    /\ CallsOf({"awslogs", "check"}) = {}

====
